---- MODULE Spec2Model ----
(***************************************************************************)
(* The analysis pipeline of backend/orch.py: transcribe -> window ->       *)
(* classify -> metrics -> topics, run by run_analysis over one analysis    *)
(* record.                                                                 *)
(*                                                                         *)
(* Strings are sequences of characters (one-character strings; an Urdu     *)
(* letter is written by its Unicode name, e.g. "KHAH").  Times reported by *)
(* the recognition engine are floats in the source; here a time is a whole *)
(* number of ticks of 1/TimeScale second, so that rounding to whole        *)
(* seconds (seconds()) is a real conversion.  The analysis record is a     *)
(* function from field names to values, as the dict of the source.         *)
(*                                                                         *)
(* The classroom and session endpoints of backend/server.py follow at the  *)
(* end, over the two tables they read and write.                           *)
(***************************************************************************)
EXTENDS Integers, Sequences, FiniteSets, TLC

VARIABLES
    pc,              \* the node of the graph that runs next, "END", or "raised"
    state,           \* the analysis record (AnalysisState)
    raised,          \* the exception that left run_analysis, or "none"
    GEMINI_API_KEY,  \* TRUE iff the environment sets a non-empty key
    WINDOW_SEC,      \* ANALYSIS_WINDOW_SEC of the environment
    path_exists,     \* Path(audio_abs_path).exists()
    calls,           \* requests sent so far to each external collaborator
    answers,         \* the classification service's responses by batch when
                     \* they are fixed ahead of the run, else <<>>
    classrooms,      \* server.py: the classrooms table, id -> row
    sessions,        \* server.py: the sessions table, id -> row
    next_class_id,   \* the id the next inserted classroom gets
    next_session_id, \* the id the next inserted session gets
    pending,         \* per user, the create_class handlers that have passed
                     \* the cap check and not inserted yet
    response         \* the last response sent: handler, caller, target, status

Server == <<classrooms, sessions, next_class_id, next_session_id, pending, response>>

vars == <<pc, state, raised, GEMINI_API_KEY, WINDOW_SEC, path_exists, calls,
          answers, Server>>

(***************************************************************************)
(* Bounds of the model.                                                    *)
(***************************************************************************)
TimeScale == 2      \* ticks per second
MaxTime == 4        \* latest segment time, in ticks
MaxSegs == 2        \* segments per transcript
MaxWindowSec == 2   \* largest ANALYSIS_WINDOW_SEC tried

Min(a, b) == IF a < b THEN a ELSE b
Max(a, b) == IF a > b THEN a ELSE b

(***************************************************************************)
(* Strings.                                                                *)
(***************************************************************************)
Whitespace == {" ", "\t", "\n"}

RECURSIVE LStrip(_)
LStrip(s) == IF s = <<>> THEN s
             ELSE IF Head(s) \in Whitespace THEN LStrip(Tail(s)) ELSE s

RECURSIVE RStrip(_)
RStrip(s) == IF s = <<>> THEN s
             ELSE IF s[Len(s)] \in Whitespace THEN RStrip(SubSeq(s, 1, Len(s) - 1)) ELSE s

\* str.strip()
Strip(s) == RStrip(LStrip(s))

\* the letters str.upper() changes, among the characters used here
UpperCase ==
    [a |-> "A", b |-> "B", c |-> "C", d |-> "D", e |-> "E", f |-> "F", g |-> "G",
     h |-> "H", i |-> "I", j |-> "J", k |-> "K", l |-> "L", m |-> "M", n |-> "N",
     o |-> "O", p |-> "P", q |-> "Q", r |-> "R", s |-> "S", t |-> "T", u |-> "U",
     v |-> "V", w |-> "W", x |-> "X", y |-> "Y", z |-> "Z"]

UpperChar(c) == IF c \in DOMAIN UpperCase THEN UpperCase[c] ELSE c

\* str.upper()
Upper(s) == [i \in 1..Len(s) |-> UpperChar(s[i])]

\* s[:n]
Take(s, n) == SubSeq(s, 1, Min(n, Len(s)))

\* str.replace(old, new): left to right, non-overlapping (old is not empty)
RECURSIVE Replace(_, _, _)
Replace(s, old, new) ==
    IF Len(s) < Len(old) THEN s
    ELSE IF SubSeq(s, 1, Len(old)) = old
         THEN new \o Replace(SubSeq(s, Len(old) + 1, Len(s)), old, new)
         ELSE <<Head(s)>> \o Replace(Tail(s), old, new)

\* sep.join(parts)
RECURSIVE Join(_, _)
Join(parts, sep) ==
    IF parts = <<>> THEN <<>>
    ELSE IF Len(parts) = 1 THEN parts[1]
    ELSE parts[1] \o sep \o Join(Tail(parts), sep)

RECURSIVE Collapse(_)
Collapse(s) ==
    IF s = <<>> THEN <<>>
    ELSE IF Head(s) \in Whitespace
         THEN IF Len(s) > 1 /\ s[2] \in Whitespace
              THEN Collapse(Tail(s))
              ELSE <<" ">> \o Collapse(Tail(s))
         ELSE <<Head(s)>> \o Collapse(Tail(s))

\* " ".join(s.split())
SplitJoin(s) == Collapse(Strip(s))

RECURSIVE Flatten(_)
Flatten(ss) == IF ss = <<>> THEN <<>> ELSE Head(ss) \o Flatten(Tail(ss))

(***************************************************************************)
(* Transliteration tables and urdu_to_roman.                               *)
(***************************************************************************)
URDU_ROMAN_MAP ==
    [ALEF |-> <<"a">>, ALEF_MADDA |-> <<"a","a">>, BEH |-> <<"b">>, PEH |-> <<"p">>,
     TEH |-> <<"t">>, TTEH |-> <<"t">>, THEH |-> <<"s">>, JEEM |-> <<"j">>,
     TCHEH |-> <<"c","h">>, HAH |-> <<"h">>, KHAH |-> <<"k","h">>, DAL |-> <<"d">>,
     DDAL |-> <<"d">>, THAL |-> <<"z">>, REH |-> <<"r">>, RREH |-> <<"r">>,
     ZAIN |-> <<"z">>, JEH |-> <<"z","h">>, SEEN |-> <<"s">>, SHEEN |-> <<"s","h">>,
     SAD |-> <<"s">>, DAD |-> <<"z">>, TAH |-> <<"t">>, ZAH |-> <<"z">>,
     AIN |-> <<"RSQUO">>, GHAIN |-> <<"g","h">>, FEH |-> <<"f">>, QAF |-> <<"q">>,
     KEHEH |-> <<"k">>, GAF |-> <<"g">>, LAM |-> <<"l">>, MEEM |-> <<"m">>,
     NOON |-> <<"n">>, NOON_GHUNNA |-> <<"n">>, WAW |-> <<"w">>, HEH_GOAL |-> <<"h">>,
     HEH_DOACHASHMEE |-> <<"h">>, HAMZA |-> <<"RSQUO">>, FARSI_YEH |-> <<"y">>,
     YEH_BARREE |-> <<"e">>, FATHA |-> <<"a">>, KASRA |-> <<"i">>, DAMMA |-> <<"u">>,
     FATHATAN |-> <<"a","n">>, KASRATAN |-> <<"i","n">>, DAMMATAN |-> <<"u","n">>,
     SHADDA |-> <<>>, SUKUN |-> <<>>]

COMMON_REPL ==
    << << <<" ","MEEM","FARSI_YEH","NOON_GHUNNA"," ">>,            <<" ","m","e","i","n"," ">> >>,
       << <<" ","NOON","HEH_GOAL","FARSI_YEH","NOON_GHUNNA"," ">>, <<" ","n","a","h","i"," ">> >>,
       << <<" ","HEH_GOAL","YEH_BARREE"," ">>,                     <<" ","h","a","i"," ">> >>,
       << <<" ","HEH_GOAL","WAW","NOON_GHUNNA"," ">>,              <<" ","h","o","o","n"," ">> >>,
       << <<" ","TEH","HEH_DOACHASHMEE","YEH_BARREE"," ">>,        <<" ","t","h","a","y"," ">> >>,
       << <<" ","TEH","HEH_DOACHASHMEE","ALEF"," ">>,              <<" ","t","h","a"," ">> >>,
       << <<" ","TEH","HEH_DOACHASHMEE","FARSI_YEH"," ">>,         <<" ","t","h","i"," ">> >>,
       << <<" ","HEH_GOAL","WAW","GAF","ALEF"," ">>,               <<" ","h","o","g","a"," ">> >>,
       << <<" ","HEH_GOAL","WAW","GAF","FARSI_YEH"," ">>,          <<" ","h","o","g","i"," ">> >>,
       << <<" ","KEHEH","FARSI_YEH","WAW","NOON_GHUNNA"," ">>,     <<" ","k","y","u","n"," ">> >>,
       << <<" ","KEHEH","FARSI_YEH","ALEF"," ">>,                  <<" ","k","y","a"," ">> >>,
       << <<" ","TEH","MEEM"," ">>,                                <<" ","t","u","m"," ">> >>,
       << <<" ","HEH_GOAL","MEEM"," ">>,                           <<" ","h","u","m"," ">> >>,
       << <<" ","HEH_GOAL","FARSI_YEH","NOON_GHUNNA"," ">>,        <<" ","h","a","i","n"," ">> >> >>

\* URDU_ROMAN_MAP.get(ch, ch)
MapChar(ch) == IF ch \in DOMAIN URDU_ROMAN_MAP THEN URDU_ROMAN_MAP[ch] ELSE <<ch>>

RECURSIVE ReplaceAll(_, _)
ReplaceAll(t, repl) ==
    IF repl = <<>> THEN t
    ELSE ReplaceAll(Replace(t, Head(repl)[1], Head(repl)[2]), Tail(repl))

urdu_to_roman(s) ==
    LET t     == ReplaceAll(<<" ">> \o s \o <<" ">>, COMMON_REPL)
        out   == [i \in 1..Len(t) |-> MapChar(t[i])]
        roman == SplitJoin(Flatten(out))
    IN  Replace(Replace(Replace(roman, <<"k","h","h">>, <<"k","h">>),
                        <<"g","h","h">>, <<"g","h">>),
                <<"s","h","h">>, <<"s","h">>)

(***************************************************************************)
(* seconds(x) = max(0, int(round(x))): x is in ticks, the result in whole  *)
(* seconds; round() rounds a tie to the even neighbour.                    *)
(***************************************************************************)
\* RoundHalfEven cutting the fraction off instead of rounding
RoundHalfEven_Truncate(n, d) == n \div d

RoundHalfEven(n, d) ==
    LET q == n \div d
        r == n % d
    IN  IF 2 * r < d THEN q
        ELSE IF 2 * r > d THEN q + 1
        ELSE IF q % 2 = 0 THEN q ELSE q + 1

seconds(x) == Max(0, RoundHalfEven(x, TimeScale))

(***************************************************************************)
(* chunk_windows.  current is the open window: start and end in ticks and  *)
(* the list of segment texts gathered so far.                              *)
(***************************************************************************)
Materialize(current) ==
    LET text_urdu == Strip(Join(current.text_urdu, <<" ">>))
    IN  [start      |-> seconds(current.start),
         end        |-> seconds(current.end),
         text_urdu  |-> text_urdu,
         text_roman |-> urdu_to_roman(text_urdu)]

\* ChunkLoop with the admission test on the times rounded to whole seconds
RECURSIVE ChunkLoop_RoundedTest(_, _, _, _)
ChunkLoop_RoundedTest(segs, current, windows, window_sec) ==
    IF segs = <<>>
    THEN IF current.text_urdu # <<>>
         THEN Append(windows, Materialize(current))
         ELSE windows
    ELSE LET seg == Head(segs)
         IN  IF seconds(seg.end) - seconds(current.start) <= window_sec
             THEN ChunkLoop_RoundedTest(Tail(segs),
                            [current EXCEPT !.end = seg.end,
                                            !.text_urdu = Append(@, seg.text)],
                            windows, window_sec)
             ELSE ChunkLoop_RoundedTest(Tail(segs),
                            [start |-> seg.start, end |-> seg.end,
                             text_urdu |-> <<seg.text>>],
                            Append(windows, Materialize(current)), window_sec)

RECURSIVE ChunkLoop(_, _, _, _)
ChunkLoop(segs, current, windows, window_sec) ==
    IF segs = <<>>
    THEN \* flush last
         IF current.text_urdu # <<>>
         THEN Append(windows, Materialize(current))
         ELSE windows
    ELSE LET seg == Head(segs)
         IN  IF seg.end - current.start <= window_sec * TimeScale
             THEN ChunkLoop(Tail(segs),
                            [current EXCEPT !.end = seg.end,
                                            !.text_urdu = Append(@, seg.text)],
                            windows, window_sec)
             ELSE ChunkLoop(Tail(segs),
                            [start |-> seg.start, end |-> seg.end,
                             text_urdu |-> <<seg.text>>],
                            Append(windows, Materialize(current)), window_sec)

chunk_windows(segments, window_sec) ==
    IF segments = <<>> THEN <<>>
    ELSE ChunkLoop(segments,
                   [start |-> segments[1].start, end |-> segments[1].end,
                    text_urdu |-> <<>>],
                   <<>>, window_sec)

(***************************************************************************)
(* Values parsed from a service's response.  A scalar carries py, the text *)
(* str(x) gives for it.  [t |-> "invalid"] stands for json.loads raising,  *)
(* [t |-> "nomatch"] for re.search finding nothing.                        *)
(***************************************************************************)
JStr(chars) == [t |-> "str", py |-> chars]
JNum1 == [t |-> "num", py |-> <<"1">>]
JNum0 == [t |-> "num", py |-> <<"0">>]
JNull == [t |-> "null", py |-> <<"N","o","n","e">>]
JList(items) == [t |-> "list", items |-> items]
JObj(fields) == [t |-> "obj", fields |-> fields]
Invalid == [t |-> "invalid"]
NoMatch == [t |-> "nomatch"]

\* bool(x) of a parsed value
Truthy(j) ==
    CASE j.t = "null" -> FALSE
      [] j.t = "num"  -> j.py # <<"0">>
      [] j.t = "str"  -> j.py # <<>>
      [] j.t = "list" -> j.items # <<>>
      [] j.t = "obj"  -> DOMAIN j.fields # {}

\* isinstance(data, list) and all(isinstance(x, str) for x in data)
IsListOfStr(j) == j.t = "list" /\ \A i \in 1..Len(j.items) : j.items[i].t = "str"

(***************************************************************************)
(* The classify stage.                                                     *)
(***************************************************************************)
LECTURE == <<"L","E","C","T","U","R","E">>
QNA == <<"Q","N","A">>
INTERACTIVE == <<"I","N","T","E","R","A","C","T","I","V","E">>
OFF_TOPIC == <<"O","F","F","_","T","O","P","I","C">>
LabelSet == {LECTURE, QNA, INTERACTIVE, OFF_TOPIC}

BATCH == 8

\* classify_batch_with_gemini with an empty list as the fallback
classify_batch_with_gemini_EmptyFallback(items, text) ==
    LET labels(j) == [i \in 1..Len(j.items) |-> j.items[i].py]
    IN  IF text.whole.t # "invalid"
        THEN IF IsListOfStr(text.whole) THEN labels(text.whole) ELSE <<>>
        ELSE IF text.bracket.t \in {"nomatch", "invalid"} THEN <<>>
             ELSE IF IsListOfStr(text.bracket) THEN labels(text.bracket)
             ELSE <<>>

\* The response text of one request: whole is json.loads(text), bracket is
\* json.loads of the match of \[.*\] in text.
classify_batch_with_gemini(items, text) ==
    LET fallback == [i \in 1..Len(items) |-> LECTURE]
        labels(j) == [i \in 1..Len(j.items) |-> j.items[i].py]
    IN  IF text.whole.t # "invalid"
        THEN IF IsListOfStr(text.whole) THEN labels(text.whole) ELSE fallback
        ELSE IF text.bracket.t \in {"nomatch", "invalid"} THEN fallback
             ELSE IF IsListOfStr(text.bracket) THEN labels(text.bracket)
             ELSE fallback

\* for w, lbl in zip(batch, labels): ww = dict(w); ww["label"] = lbl.strip().upper()
LabelBatch(batch, labels) ==
    [k \in 1..Min(Len(batch), Len(labels)) |->
        ("label" :> Upper(Strip(labels[k]))) @@ batch[k]]

NumBatches(windows) == (Len(windows) + BATCH - 1) \div BATCH

BatchOf(windows, b) ==
    SubSeq(windows, (b - 1) * BATCH + 1, Min(b * BATCH, Len(windows)))

RECURSIVE ClassifyLoop(_, _, _, _)
ClassifyLoop(windows, texts, b, labeled) ==
    IF b > NumBatches(windows) THEN labeled
    ELSE LET batch  == BatchOf(windows, b)
             labels == classify_batch_with_gemini(batch, texts[b])
         IN  ClassifyLoop(windows, texts, b + 1, labeled \o LabelBatch(batch, labels))

Get(d, key, default) == IF key \in DOMAIN d THEN d[key] ELSE default

\* the record node_classify returns when the key is set; texts[b] is the
\* response to the request for batch b
node_classify(st, texts) ==
    LET windows == Get(st, "windows", <<>>)
    IN  ("windows" :> ClassifyLoop(windows, texts, 1, <<>>)) @@ st

(***************************************************************************)
(* The metrics stage.  interactivity_score is kept in hundredths.          *)
(***************************************************************************)
WindowDur(w) == Max(0, w.end - w.start)

\* MetricsLabel without the check against the label set
MetricsLabel_NoCoercion(w) ==
    LET raw == Get(w, "label", <<>>)
    IN  Upper(IF raw = <<>> THEN LECTURE ELSE raw)

MetricsLabel(w) ==
    LET raw   == Get(w, "label", <<>>)
        label == Upper(IF raw = <<>> THEN LECTURE ELSE raw)
    IN  IF label \in LabelSet THEN label ELSE LECTURE

RECURSIVE Totals(_, _)
Totals(windows, label) ==
    IF windows = <<>> THEN 0
    ELSE (IF MetricsLabel(Head(windows)) = label THEN WindowDur(Head(windows)) ELSE 0)
         + Totals(Tail(windows), label)

RECURSIVE SumDur(_)
SumDur(windows) ==
    IF windows = <<>> THEN 0 ELSE WindowDur(Head(windows)) + SumDur(Tail(windows))

node_metrics(st) ==
    LET windows         == Get(st, "windows", <<>>)
        supplied        == Get(st, "duration_sec", 0)
        duration_sec    == IF supplied # 0 THEN supplied ELSE SumDur(windows)
        teaching_sec    == Totals(windows, LECTURE)
        qna_sec         == Totals(windows, QNA)
        interactive_sec == Totals(windows, INTERACTIVE)
        time_wasted_sec == Totals(windows, OFF_TOPIC)
        score           == IF duration_sec > 0
                           THEN RoundHalfEven(10000 * (qna_sec + interactive_sec),
                                              duration_sec)
                           ELSE 0
    IN  ("metrics" :> [duration_sec    |-> duration_sec,
                       teaching_sec    |-> teaching_sec,
                       qna_sec         |-> qna_sec,
                       interactive_sec |-> interactive_sec,
                       time_wasted_sec |-> time_wasted_sec])
        @@ ("scores" :> [interactivity_score |-> score])
        @@ st

(***************************************************************************)
(* The topics stage.  The response text t: whole is json.loads(t), brace   *)
(* is json.loads of the match of \{.*\} in t.  The result names the        *)
(* exception that leaves the function, or "none" with the record returned. *)
(***************************************************************************)
TOPIC_CHARS == 80
TEXT_CHARS == 2000
MAX_TOPICS == 8

EmptyPair == [english |-> <<>>, roman |-> <<>>]

\* str(x) of a scalar
PyStr(j) == j.py

\* data.get(key) or {}
GetOrEmpty(data, key) ==
    IF key \in DOMAIN data.fields /\ Truthy(data.fields[key])
    THEN data.fields[key]
    ELSE JObj(<<>>)

\* str(d.get(key, ""))[:2000]
PairField(d, key) ==
    IF key \in DOMAIN d.fields THEN Take(PyStr(d.fields[key]), TEXT_CHARS) ELSE <<>>

node_topics_and_summary(st, key_set, text) ==
    IF ~key_set
    THEN [raises |-> "none",
          out    |-> ("topics" :> <<>>) @@ ("topic_explanations" :> EmptyPair)
                     @@ ("summary" :> EmptyPair) @@ st]
    ELSE IF text.whole.t = "invalid" /\ text.brace.t = "invalid"
    THEN [raises |-> "JSONDecodeError", out |-> st]
    ELSE
      LET data == IF text.whole.t # "invalid" THEN text.whole
                  ELSE IF text.brace.t = "nomatch" THEN JObj(<<>>)
                  ELSE text.brace
      IN  IF data.t # "obj"
          THEN [raises |-> "none",
                out    |-> ("topics" :> <<>>) @@ ("topic_explanations" :> EmptyPair)
                           @@ ("summary" :> EmptyPair) @@ st]
          ELSE
            LET tp == IF "topics" \in DOMAIN data.fields /\ data.fields["topics"].t = "list"
                      THEN LET items == Take(data.fields["topics"].items, MAX_TOPICS)
                           IN  [i \in 1..Len(items) |-> Take(PyStr(items[i]), TOPIC_CHARS)]
                      ELSE <<>>
                te == GetOrEmpty(data, "topic_explanations")
                sm == GetOrEmpty(data, "summary")
            IN  IF te.t # "obj" \/ sm.t # "obj"
                THEN [raises |-> "AttributeError", out |-> st]
                ELSE [raises |-> "none",
                      out    |-> ("topics" :> tp)
                                 @@ ("topic_explanations" :>
                                       [english |-> PairField(te, "english"),
                                        roman   |-> PairField(te, "roman")])
                                 @@ ("summary" :>
                                       [english |-> PairField(sm, "english"),
                                        roman   |-> PairField(sm, "roman")])
                                 @@ st]

(***************************************************************************)
(* The transcribe and window stages.                                       *)
(***************************************************************************)
\* info is the engine's second result: kind "none" (falsy), "noattr" (an
\* object without a duration attribute) or "duration"
node_transcribe(st, segments, info) ==
    LET segs      == [i \in 1..Len(segments) |->
                        [start |-> segments[i].start, end |-> segments[i].end,
                         text  |-> Strip(segments[i].text)]]
        full      == [i \in 1..Len(segs) |-> segs[i].text]
        text_urdu == Strip(Join(full, <<" ">>))
        duration  == IF info.kind # "none"
                     THEN (IF info.kind = "duration" THEN info.duration ELSE 0)
                     ELSE (IF segs # <<>> THEN segs[Len(segs)].end ELSE 0)
    IN  ("segments" :> segs) @@ ("text_urdu" :> text_urdu)
        @@ ("text_roman" :> urdu_to_roman(text_urdu))
        @@ ("duration_sec" :> seconds(duration)) @@ st

node_window(st, window_sec) ==
    ("windows" :> chunk_windows(Get(st, "segments", <<>>), window_sec)) @@ st

(***************************************************************************)
(* What the external collaborators may answer.                             *)
(***************************************************************************)
Times == 0..MaxTime

\* texts the engine gives a segment (s.text, before .strip())
EngineTexts == { <<>>, <<" ","KHAH","HEH_GOAL">> }

SegPool == {sg \in [start : Times, end : Times, text : EngineTexts] : sg.start <= sg.end}

\* segments come ordered by start, each with end >= start
EngineSegments ==
    UNION {{ss \in [1..n -> SegPool] :
              \A i \in 1..(n - 1) : ss[i].start <= ss[i + 1].start} : n \in 0..MaxSegs}

RECURSIVE MaxEnd(_)
MaxEnd(segments) ==
    IF segments = <<>> THEN 0 ELSE Max(Head(segments).end, MaxEnd(Tail(segments)))

\* a reported duration is the length of the audio, which no segment outlasts
EngineInfos(segments) ==
    {[kind |-> "none", duration |-> 0], [kind |-> "noattr", duration |-> 0]}
    \cup {[kind |-> "duration", duration |-> d] : d \in MaxEnd(segments)..MaxTime}

\* label strings the classification service may put in its list
RawLabels == { QNA, <<" ","i","n","t","e","r","a","c","t","i","v","e","\n">>,
               <<"O","f","f","_","T","o","p","i","c">>, <<"M","A","Y","B","E">> }

\* lists of at most n label strings
LabelLists(n) == UNION {[1..k -> {JStr(l) : l \in RawLabels}] : k \in 0..n}

\* response texts to a request for a batch of n windows: a JSON list of
\* strings (shorter, as long, or one longer than the batch), other JSON, and
\* text that is no JSON with or without a bracketed part (bracket is not
\* looked at when whole is JSON, and is written NoMatch there)
ClassifyTexts(n) ==
    {[whole |-> JList(l), bracket |-> NoMatch] : l \in LabelLists(n + 1)}
    \cup {[whole |-> Invalid, bracket |-> JList(l)] : l \in LabelLists(n)}
    \cup {[whole |-> JList(<<JNum1>>), bracket |-> NoMatch],
          [whole |-> JObj(<<>>), bracket |-> NoMatch],
          [whole |-> Invalid, bracket |-> JList(<<JNum1>>)],
          [whole |-> Invalid, bracket |-> Invalid],
          [whole |-> Invalid, bracket |-> NoMatch]}

PairObjects == { JObj([english |-> JStr(<<"e">>), roman |-> JStr(<<"r">>)]) }

TopicsObjects ==
    { JObj(<<>>),
      JObj([topics |-> JList(<<JStr(<<"t">>), JNum1>>)]),
      JObj([topics |-> JStr(<<"t">>)]) }
    \cup {JObj([topics |-> JList(<<JStr(<<"t">>)>>), topic_explanations |-> te,
                summary |-> JObj([english |-> JNum1])]) : te \in PairObjects \cup {JNull}}
    \cup {JObj([topic_explanations |-> JStr(<<"x">>)]),
          JObj([summary |-> JList(<<JNum1>>)]),
          JObj([summary |-> JNum0])}

\* response texts of the topic/summary service
TopicsTexts ==
    {[whole |-> o, brace |-> NoMatch] : o \in TopicsObjects}
    \cup {[whole |-> Invalid, brace |-> o] : o \in TopicsObjects}
    \cup {[whole |-> JList(<<JNum1>>), brace |-> NoMatch],
          [whole |-> JStr(<<"t">>), brace |-> NoMatch],
          [whole |-> JNull, brace |-> NoMatch],
          [whole |-> Invalid, brace |-> Invalid],
          [whole |-> Invalid, brace |-> NoMatch]}

(***************************************************************************)
(* run_analysis: the graph of build_graph, one node per step.              *)
(***************************************************************************)
NoCalls == [asr |-> 0, classify |-> 0, topics |-> 0]

NoResponse == [handler |-> "none", user |-> 0, target |-> 0, status |-> 0]

\* the database as init_db leaves it, and no request handled
ServerIdle ==
    /\ classrooms = <<>>
    /\ sessions = <<>>
    /\ next_class_id = 1
    /\ next_session_id = 1
    /\ pending = <<>>
    /\ response = NoResponse

Init ==
    /\ pc = "run_analysis"
    /\ state = <<>>
    /\ raised = "none"
    /\ GEMINI_API_KEY \in BOOLEAN
    /\ WINDOW_SEC \in 1..MaxWindowSec
    /\ path_exists \in BOOLEAN
    /\ calls = NoCalls
    /\ answers = <<>>
    /\ ServerIdle

\* what no node of the graph writes
Env == <<GEMINI_API_KEY, WINDOW_SEC, path_exists, answers, Server>>

\* RunAnalysis without the check that the path exists
RunAnalysis_NoExistsCheck ==
    /\ pc = "run_analysis"
    /\ pc' = "transcribe"
    /\ raised' = raised
    /\ state' = [audio_path |-> <<"a",".","w","a","v">>]
    /\ UNCHANGED <<Env, calls>>

\* run_analysis up to graph.invoke: the entry point is transcribe
RunAnalysis ==
    /\ pc = "run_analysis"
    /\ IF ~path_exists
       THEN /\ pc' = "raised"
            /\ raised' = "FileNotFoundError"
            /\ state' = state
       ELSE /\ pc' = "transcribe"
            /\ raised' = raised
            /\ state' = [audio_path |-> <<"a",".","w","a","v">>]
    /\ UNCHANGED <<Env, calls>>

NodeTranscribe ==
    /\ pc = "transcribe"
    /\ \E segments \in EngineSegments :
         \E info \in EngineInfos(segments) :
            state' = node_transcribe(state, segments, info)
    /\ calls' = [calls EXCEPT !.asr = @ + 1]
    /\ pc' = "window"
    /\ UNCHANGED <<Env, raised>>

NodeWindow ==
    /\ pc = "window"
    /\ state' = node_window(state, WINDOW_SEC)
    /\ pc' = "classify"
    /\ UNCHANGED <<Env, raised, calls>>

\* NodeClassify with the key checked inside the loop over the batches
NodeClassify_KeyCheckedPerBatch ==
    /\ pc = "classify"
    /\ LET windows == Get(state, "windows", <<>>)
           nb      == NumBatches(windows)
       IN  IF ~GEMINI_API_KEY /\ nb > 0
           THEN /\ pc' = "raised"
                /\ raised' = "RuntimeError"
                /\ UNCHANGED <<state, calls>>
           ELSE /\ \E texts \in [1..nb -> ClassifyTexts(Min(BATCH, Len(windows)))] :
                      state' = node_classify(state, texts)
                /\ calls' = [calls EXCEPT !.classify = @ + nb]
                /\ pc' = "metrics"
                /\ raised' = raised
    /\ UNCHANGED Env

NodeClassify ==
    /\ pc = "classify"
    /\ IF ~GEMINI_API_KEY
       THEN /\ pc' = "raised"
            /\ raised' = "RuntimeError"
            /\ UNCHANGED <<state, calls>>
       ELSE LET windows == Get(state, "windows", <<>>)
                nb      == NumBatches(windows)
            IN  /\ \E texts \in [1..nb -> ClassifyTexts(Min(BATCH, Len(windows)))] :
                      state' = node_classify(state, texts)
                /\ calls' = [calls EXCEPT !.classify = @ + nb]
                /\ pc' = "metrics"
                /\ raised' = raised
    /\ UNCHANGED Env

NodeMetrics ==
    /\ pc = "metrics"
    /\ state' = node_metrics(state)
    /\ pc' = "topics"
    /\ UNCHANGED <<Env, raised, calls>>

NodeTopics ==
    /\ pc = "topics"
    /\ \E text \in (IF GEMINI_API_KEY THEN TopicsTexts
                    ELSE {[whole |-> Invalid, brace |-> NoMatch]}) :
         LET r == node_topics_and_summary(state, GEMINI_API_KEY, text)
         IN  /\ state' = r.out
             /\ raised' = r.raises
             /\ pc' = IF r.raises = "none" THEN "END" ELSE "raised"
    /\ calls' = [calls EXCEPT !.topics = @ + (IF GEMINI_API_KEY THEN 1 ELSE 0)]
    /\ UNCHANGED Env

Next ==
    \/ RunAnalysis
    \/ NodeTranscribe
    \/ NodeWindow
    \/ NodeClassify
    \/ NodeMetrics
    \/ NodeTopics

Spec == Init /\ [][Next]_vars

(***************************************************************************)
(* node_metrics called on any record: windows with or without a label,     *)
(* with labels of any case and outside the label set, with end before      *)
(* start, and a duration_sec that is absent, zero or positive.             *)
(***************************************************************************)
MaxMetricsSec == 1       \* latest window boundary, in seconds
MaxMetricsWindows == 2   \* windows per record

MetricsLabels == { <<"q","n","a">>, <<"M","a","y","b","e">>, OFF_TOPIC, INTERACTIVE }

MetricsWindowPool ==
    [start : 0..MaxMetricsSec, end : 0..MaxMetricsSec]
    \cup [start : 0..MaxMetricsSec, end : 0..MaxMetricsSec, label : MetricsLabels]

NoDuration == 0 - 1   \* stands for a record without duration_sec

MetricsRecord(ws, d) ==
    IF d = NoDuration THEN [windows |-> ws] ELSE [windows |-> ws, duration_sec |-> d]

InitMetrics ==
    /\ pc = "metrics"
    /\ \E n \in 0..MaxMetricsWindows :
         \E ws \in [1..n -> MetricsWindowPool] :
            \E d \in {NoDuration, 0, MaxMetricsSec} :
               state = MetricsRecord(ws, d)
    /\ raised = "none"
    /\ GEMINI_API_KEY = TRUE
    /\ WINDOW_SEC = 1
    /\ path_exists = TRUE
    /\ calls = NoCalls
    /\ answers = <<>>
    /\ ServerIdle

SpecMetrics == InitMetrics /\ [][NodeMetrics]_vars

(***************************************************************************)
(* Properties.                                                             *)
(***************************************************************************)
Windows == Get(state, "windows", <<>>)
Segments == Get(state, "segments", <<>>)

\* the classify stage has returned in this run
ClassifyDone ==
    \/ pc \in {"metrics", "topics", "END"}
    \/ pc = "raised" /\ raised \in {"JSONDecodeError", "AttributeError"}

\* the metrics stage has returned in this run
MetricsDone == "metrics" \in DOMAIN state

\* C1: after the classify stage completes, every window of the record carries
\* a label of the closed set LECTURE, QNA, INTERACTIVE, OFF_TOPIC (a returned
\* value outside the set is stored as LECTURE).
C1_LabelsInClosedSet ==
    ClassifyDone =>
        \A i \in 1..Len(Windows) :
            "label" \in DOMAIN Windows[i] /\ Windows[i].label \in LabelSet

\* C2: with GEMINI_API_KEY unset, run_analysis on an existing file does not
\* raise, and the record it returns has topics = [] and empty explanation and
\* summary fields.
C2_NoKeyRunCompletes ==
    (~GEMINI_API_KEY /\ path_exists) =>
        /\ pc # "raised"
        /\ pc = "END" => /\ state["topics"] = <<>>
                         /\ state["topic_explanations"] = EmptyPair
                         /\ state["summary"] = EmptyPair

WithoutLabel(w) ==
    [start |-> w.start, end |-> w.end,
     text_urdu |-> w.text_urdu, text_roman |-> w.text_roman]

\* C3: the classify stage outputs exactly one labeled window per input window,
\* in the same order and with the same start, end and text fields, whatever
\* the classification service answers.
C3_OneLabeledWindowPerWindow ==
    ClassifyDone =>
        LET input == chunk_windows(Segments, WINDOW_SEC)
        IN  /\ Len(Windows) = Len(input)
            /\ \A i \in 1..Len(Windows) :
                  "label" \in DOMAIN Windows[i] /\ WithoutLabel(Windows[i]) = input[i]

\* C4: in every record the pipeline produces, scores.interactivity_score lies
\* in 0..100 (the score is kept in hundredths).
C4_ScoreInRange ==
    MetricsDone =>
        /\ state["scores"].interactivity_score >= 0
        /\ state["scores"].interactivity_score <= 100 * 100

\* the windows stage has returned in this run
WindowsDone == "windows" \in DOMAIN state

\* two windows cover a common interval of positive length, or are the same span
Overlap(a, b) ==
    \/ Max(a.start, b.start) < Min(a.end, b.end)
    \/ a.start = b.start /\ a.end = b.end

\* C5: the windows chunk_windows returns are ordered by non-decreasing start
\* and their time ranges are pairwise disjoint.
C5_WindowsOrderedAndDisjoint ==
    WindowsDone =>
        /\ \A i \in 1..(Len(Windows) - 1) : Windows[i].start <= Windows[i + 1].start
        /\ \A i, j \in 1..Len(Windows) : i < j => ~Overlap(Windows[i], Windows[j])

\* C6: a single segment longer than window_size yields exactly one window,
\* which spans the segment and holds the segment's text.
C6_LongSegmentOneWindow ==
    (/\ WindowsDone
     /\ Len(Segments) = 1
     /\ Segments[1].end - Segments[1].start > WINDOW_SEC * TimeScale) =>
        /\ Len(Windows) = 1
        /\ Windows[1].start = seconds(Segments[1].start)
        /\ Windows[1].end = seconds(Segments[1].end)
        /\ Windows[1].text_urdu = Segments[1].text

\* C7: with a credential configured, node_topics_and_summary does not raise,
\* whatever the text of the service's response, and returns topics, a
\* two-field topic_explanations and a two-field summary.
C7_TopicsNeverRaises ==
    /\ ~(pc = "raised" /\ raised \in {"JSONDecodeError", "AttributeError"})
    /\ (GEMINI_API_KEY /\ pc = "END") =>
           /\ DOMAIN state["topic_explanations"] = {"english", "roman"}
           /\ DOMAIN state["summary"] = {"english", "roman"}

LaterStageFields == {"metrics", "scores", "topics", "topic_explanations", "summary"}

\* C8: with GEMINI_API_KEY unset the classify stage raises before any
\* classification request is sent, for every window list (the empty one
\* too), and neither metrics nor topics runs.
C8_NoKeyClassifyFailsFast ==
    /\ [](~GEMINI_API_KEY =>
            /\ calls.classify = 0
            /\ calls.topics = 0
            /\ pc \notin {"metrics", "topics", "END"}
            /\ DOMAIN state \cap LaterStageFields = {}
            /\ (pc = "raised" /\ path_exists) => raised = "RuntimeError")
    /\ [][(pc = "classify" /\ ~GEMINI_API_KEY) =>
             (pc' = "raised" /\ raised' = "RuntimeError" /\ calls' = calls)]_vars

C8_Witness ==
    /\ ~GEMINI_API_KEY
    /\ pc = "raised"
    /\ raised = "RuntimeError"
    /\ "windows" \in DOMAIN state
    /\ state["windows"] = <<>>
    /\ calls.asr = 1

\* C9: run_analysis on a path that does not exist fails with a file-not-found
\* error before any external call: the engine and both services are never
\* invoked in that run.
C9_MissingFileNoExternalCall ==
    /\ [](~path_exists =>
            /\ calls = NoCalls
            /\ pc \in {"run_analysis", "raised"}
            /\ pc = "raised" => raised = "FileNotFoundError")
    /\ [][(pc = "run_analysis" /\ ~path_exists) =>
             (pc' = "raised" /\ raised' = "FileNotFoundError")]_vars

C9_Witness ==
    /\ ~path_exists
    /\ pc = "raised"
    /\ raised = "FileNotFoundError"
    /\ calls = NoCalls

\* the record held no usable duration when node_metrics ran
DurationDerived == Get(state, "duration_sec", 0) = 0

\* C10: when node_metrics derives duration_sec from the window spans, the
\* four per-label totals add up to metrics.duration_sec, whatever labels the
\* windows carry (none, or one outside the set).
C10_TotalsAddUpToDuration ==
    (MetricsDone /\ DurationDerived) =>
        LET m == state["metrics"]
        IN  m.teaching_sec + m.qna_sec + m.interactive_sec + m.time_wasted_sec
                = m.duration_sec

C10_Witness ==
    /\ MetricsDone
    /\ DurationDerived
    /\ Len(Windows) = 2
    /\ "label" \notin DOMAIN Windows[1]
    /\ "label" \in DOMAIN Windows[2]
    /\ Upper(Windows[2].label) \notin LabelSet
    /\ state["metrics"].duration_sec = 2 * MaxMetricsSec
    /\ state["metrics"].teaching_sec = 2 * MaxMetricsSec

(***************************************************************************)
(* node_metrics on records whose duration does not divide the interactive  *)
(* time, and on the record of four windows of 600, 300, 300 and 100        *)
(* seconds labeled LECTURE, QNA, INTERACTIVE and OFF_TOPIC.                *)
(***************************************************************************)
MaxScoreDuration == 7    \* largest duration_sec supplied with the record

ScoreDurations == {NoDuration, 0} \cup {d \in 2..MaxScoreDuration : d % 2 = 1}

ExampleWindows ==
    << [start |-> 0,    end |-> 600,  label |-> LECTURE],
       [start |-> 600,  end |-> 900,  label |-> QNA],
       [start |-> 900,  end |-> 1200, label |-> INTERACTIVE],
       [start |-> 1200, end |-> 1300, label |-> OFF_TOPIC] >>

InitScore ==
    /\ pc = "metrics"
    /\ \/ \E n \in 0..MaxMetricsWindows :
             \E ws \in [1..n -> MetricsWindowPool] :
                \E d \in ScoreDurations :
                   state = MetricsRecord(ws, d)
       \/ state = [windows |-> ExampleWindows]
    /\ raised = "none"
    /\ GEMINI_API_KEY = TRUE
    /\ WINDOW_SEC = 1
    /\ path_exists = TRUE
    /\ calls = NoCalls
    /\ answers = <<>>
    /\ ServerIdle

SpecScore == InitScore /\ [][NodeMetrics]_vars

Abs(x) == IF x < 0 THEN 0 - x ELSE x

\* C11: interactivity_score (in hundredths) is the hundredth nearest to
\* 100 * (qna_sec + interactive_sec) / duration_sec when duration_sec > 0 and
\* is 0 when duration_sec is 0; windows of 600 s LECTURE, 300 s QNA, 300 s
\* INTERACTIVE and 100 s OFF_TOPIC give duration_sec 1300 and score 46.15.
C11_ScoreRoundedOrZero ==
    MetricsDone =>
        LET m == state["metrics"]
            s == state["scores"].interactivity_score
            n == m.qna_sec + m.interactive_sec
            d == m.duration_sec
        IN  /\ d >= 0
            /\ d = 0 => s = 0
            /\ d > 0 => 2 * Abs(s * d - 10000 * n) <= d
            /\ (Windows = ExampleWindows /\ DurationDerived) =>
                   (d = 1300 /\ s = 4615)

C11_Witness ==
    /\ MetricsDone
    /\ Windows = ExampleWindows
    /\ state["metrics"].duration_sec = 1300
    /\ state["metrics"].qna_sec = 300
    /\ state["metrics"].interactive_sec = 300
    /\ state["scores"].interactivity_score = 4615

(***************************************************************************)
(* node_classify on window lists longer than one batch, the service        *)
(* answering each batch with a response fixed ahead of the run.            *)
(***************************************************************************)
MaxClassifyWindows == 9    \* windows per record

ClassifyWindow(i) ==
    [start |-> i - 1, end |-> i, text_urdu |-> <<>>, text_roman |-> <<>>]

ClassifyWindows(n) == [i \in 1..n |-> ClassifyWindow(i)]

\* responses to a request for n windows: a list of one label repeated n or
\* n - 1 times, such a list inside other text, JSON that is no list, and text
\* that is no JSON with a bracketed part that is no JSON or with none
ScriptTexts(n) ==
    {[whole |-> JList([i \in 1..k |-> JStr(l)]), bracket |-> NoMatch] :
        l \in RawLabels, k \in Max(0, n - 1)..n}
    \cup {[whole |-> Invalid, bracket |-> JList([i \in 1..n |-> JStr(QNA)])],
          [whole |-> JObj(<<>>), bracket |-> NoMatch],
          [whole |-> Invalid, bracket |-> Invalid],
          [whole |-> Invalid, bracket |-> NoMatch]}

InitClassify ==
    /\ pc = "classify"
    /\ \E n \in 0..MaxClassifyWindows :
         LET ws == ClassifyWindows(n)
         IN  /\ state = [windows |-> ws]
             /\ answers \in [1..NumBatches(ws) -> ScriptTexts(BATCH)
                                                   \cup ScriptTexts(Len(ws) % BATCH)]
             /\ \A b \in 1..NumBatches(ws) :
                    answers[b] \in ScriptTexts(Len(BatchOf(ws, b)))
    /\ raised = "none"
    /\ GEMINI_API_KEY \in BOOLEAN
    /\ WINDOW_SEC = 1
    /\ path_exists = TRUE
    /\ calls = NoCalls
    /\ ServerIdle

\* node_classify, request b answered by answers[b]
NodeClassifyScripted ==
    /\ pc = "classify"
    /\ IF ~GEMINI_API_KEY
       THEN /\ pc' = "raised"
            /\ raised' = "RuntimeError"
            /\ UNCHANGED <<state, calls>>
       ELSE /\ state' = node_classify(state, answers)
            /\ calls' = [calls EXCEPT !.classify = @ + Len(answers)]
            /\ pc' = "metrics"
            /\ raised' = raised
    /\ UNCHANGED Env

SpecClassify == InitClassify /\ [][NodeClassifyScripted]_vars

NoJsonNoBracket(text) == text.whole = Invalid /\ text.bracket = NoMatch

\* batch b of the windows was all labeled LECTURE in out, and the rest of
\* out is what it is when batch b gets a well-formed answer instead
FailedBatchOnly(windows, b, out) ==
    LET batch      == BatchOf(windows, b)
        InBatch(w) == \E k \in 1..Len(batch) : batch[k] = WithoutLabel(w)
        good       == [whole |-> JList([i \in 1..Len(batch) |-> JStr(QNA)]),
                       bracket |-> NoMatch]
        other      == ClassifyLoop(windows, [answers EXCEPT ![b] = good], 1, <<>>)
        Outside(ws) == SelectSeq(ws, LAMBDA w : ~InBatch(w))
    IN  /\ \A k \in 1..Len(batch) :
              \E j \in 1..Len(out) : out[j] = ("label" :> LECTURE) @@ batch[k]
        /\ \A j \in 1..Len(out) : InBatch(out[j]) => out[j].label = LECTURE
        /\ Outside(out) = Outside(other)

\* C12: when the response to a batch is no JSON and holds no bracketed
\* array, every window of that batch is labeled LECTURE, and the windows of
\* the other batches get the labels they get without that failure.
C12_FailedBatchAllLecture ==
    [][(pc = "classify" /\ pc' = "metrics") =>
          \A b \in 1..Len(answers) :
             NoJsonNoBracket(answers[b]) =>
                FailedBatchOnly(state["windows"], b, state'["windows"])]_vars

C12_Witness ==
    /\ pc = "metrics"
    /\ Len(answers) = 2
    /\ NoJsonNoBracket(answers[1])
    /\ Len(Windows) = BATCH + 1
    /\ \A i \in 1..BATCH : Windows[i].label = LECTURE
    /\ Windows[BATCH + 1].label = QNA

(***************************************************************************)
(* urdu_to_roman applied to a text and then to its own output.             *)
(***************************************************************************)
MaxTextLen == 4    \* characters per input text

RomanChars == {" ", "k", "h", "KHAH", "HEH_GOAL", "YEH_BARREE"}

RomanInputs == UNION {[1..n -> RomanChars] : n \in 0..MaxTextLen}

InitRoman ==
    /\ pc = "urdu_to_roman"
    /\ \E s \in RomanInputs : state = [text |-> s, roman |-> <<>>]
    /\ raised = "none"
    /\ GEMINI_API_KEY = TRUE
    /\ WINDOW_SEC = 1
    /\ path_exists = TRUE
    /\ calls = NoCalls
    /\ answers = <<>>
    /\ ServerIdle

\* one call of urdu_to_roman: on the text first, then on the last output
CallUrduToRoman ==
    /\ pc = "urdu_to_roman"
    /\ Len(state.roman) < 2
    /\ LET s == IF state.roman = <<>> THEN state.text
                ELSE state.roman[Len(state.roman)]
       IN  state' = [state EXCEPT !.roman = Append(@, urdu_to_roman(s))]
    /\ UNCHANGED <<pc, raised, calls, Env>>

SpecRoman == InitRoman /\ [][CallUrduToRoman]_vars

\* C13: urdu_to_roman is idempotent: applied to its own output it returns
\* that output unchanged.
C13_UrduToRomanIdempotent ==
    (pc = "urdu_to_roman" /\ Len(state.roman) = 2) =>
        state.roman[2] = state.roman[1]

(***************************************************************************)
(* node_window on segment lists of up to MaxChunkSegs segments, segment i  *)
(* carrying a text of its own (i letters), and on the two lists (0,10),    *)
(* (95,100) and (0,10), (50,60) with a window of 90 seconds.               *)
(***************************************************************************)
MaxChunkSegs == 3    \* segments per list

SegText(i) == [k \in 1..i |-> "a"]

SpanPool == {sp \in [start : Times, end : Times] : sp.start <= sp.end}

\* segments ordered by start, each with end >= start
ChunkSegments ==
    UNION {{[i \in 1..n |-> [start |-> sp[i].start, end |-> sp[i].end,
                             text |-> SegText(i)]] :
              sp \in {x \in [1..n -> SpanPool] :
                         \A i \in 1..(n - 1) : x[i].start <= x[i + 1].start}}
           : n \in 0..MaxChunkSegs}

\* the segments (0, 10) and (start2, end2), in seconds
ChunkExample(start2, end2) ==
    << [start |-> 0, end |-> 10 * TimeScale, text |-> SegText(1)],
       [start |-> start2 * TimeScale, end |-> end2 * TimeScale, text |-> SegText(2)] >>

DEFAULT_WINDOW_SEC == 90

InitChunk ==
    /\ pc = "window"
    /\ \/ /\ \E segs \in ChunkSegments : state = [segments |-> segs]
          /\ WINDOW_SEC \in 1..MaxWindowSec
       \/ /\ state \in {[segments |-> ChunkExample(95, 100)],
                        [segments |-> ChunkExample(50, 60)]}
          /\ WINDOW_SEC = DEFAULT_WINDOW_SEC
    /\ raised = "none"
    /\ GEMINI_API_KEY = TRUE
    /\ path_exists = TRUE
    /\ calls = NoCalls
    /\ answers = <<>>
    /\ ServerIdle

SpecChunk == InitChunk /\ [][NodeWindow]_vars

\* the segment at which the window that takes segment i was opened, by the
\* rule: segment i joins the open window iff its end is at most window_sec
\* after that window's start
RECURSIVE Opener(_, _, _)
Opener(segs, window_sec, i) ==
    IF i = 1 THEN 1
    ELSE LET o == Opener(segs, window_sec, i - 1)
         IN  IF segs[i].end - segs[o].start <= window_sec * TimeScale THEN o ELSE i

\* the window made of segments a..b
WindowOfRun(segs, a, b) ==
    LET text_urdu == Strip(Join([k \in 1..(b - a + 1) |-> segs[a + k - 1].text], <<" ">>))
    IN  [start      |-> seconds(segs[a].start),
         end        |-> seconds(segs[b].end),
         text_urdu  |-> text_urdu,
         text_roman |-> urdu_to_roman(text_urdu)]

\* the windows of segments a..Len(segs) when a new window starts at each
\* index of cuts
RECURSIVE RunsFrom(_, _, _)
RunsFrom(segs, cuts, a) ==
    LET later == {c \in cuts : c > a}
        b     == IF later = {} THEN Len(segs)
                 ELSE (CHOOSE c \in later : \A x \in later : c <= x) - 1
    IN  <<WindowOfRun(segs, a, b)>>
        \o (IF b = Len(segs) THEN <<>> ELSE RunsFrom(segs, cuts, b + 1))

\* the window closed when the first segment does not fit the window it opens
SeededWindow(segs) ==
    [start |-> seconds(segs[1].start), end |-> seconds(segs[1].end),
     text_urdu |-> <<>>, text_roman |-> <<>>]

\* C14: a segment joins the open window exactly when seg.end minus the
\* window's start is at most the window size (inclusive, on the times before
\* rounding); otherwise the open window is closed and a new one opens at that
\* segment.  The window open when the first segment arrives is the seeded,
\* empty one.  Segments (0,10), (95,100) with 90 s give two windows, and
\* (0,10), (50,60) give one window from 0 to 60.
C14_AdmissionRule ==
    (pc = "classify" /\ WindowsDone) =>
        /\ Segments = <<>> => Windows = <<>>
        /\ Segments # <<>> =>
              LET n    == Len(Segments)
                  cuts == {i \in 2..n : Opener(Segments, WINDOW_SEC, i) = i}
                  lead == IF Segments[1].end - Segments[1].start
                               <= WINDOW_SEC * TimeScale
                          THEN <<>> ELSE <<SeededWindow(Segments)>>
              IN  Windows = lead \o RunsFrom(Segments, cuts, 1)
        /\ Segments = ChunkExample(95, 100) /\ WINDOW_SEC = DEFAULT_WINDOW_SEC
              => Len(Windows) = 2
        /\ Segments = ChunkExample(50, 60) /\ WINDOW_SEC = DEFAULT_WINDOW_SEC
              => /\ Len(Windows) = 1
                 /\ Windows[1].start = 0
                 /\ Windows[1].end = 60

C14_Witness ==
    /\ pc = "classify"
    /\ WINDOW_SEC = DEFAULT_WINDOW_SEC
    /\ Segments = ChunkExample(95, 100)
    /\ Len(Windows) = 2
    /\ Windows[1].end = 10
    /\ Windows[2].start = 95

\* C17: chunk_windows partitions the segments: the windows are those of a
\* split of the list into consecutive runs of one or more segments, in
\* order, the last run included; the empty list gives no window.
C17_WindowsPartitionSegments ==
    (pc = "classify" /\ WindowsDone) =>
        /\ Segments = <<>> => Windows = <<>>
        /\ Segments # <<>> =>
              \E cuts \in SUBSET (2..Len(Segments)) :
                 Windows = RunsFrom(Segments, cuts, 1)

\* the transcribe stage has returned in this run
TranscribeDone == {"segments", "duration_sec"} \subseteq DOMAIN state

\* C15: duration_sec after transcribe is a duration the engine can report
\* for these segments, rounded, or else the rounded end of the last segment
\* (zero without segments); an engine result without a duration falls under
\* "else".
C15_DurationFromEngineOrLastSegment ==
    TranscribeDone =>
        LET last == IF Segments = <<>> THEN 0 ELSE Segments[Len(Segments)].end
        IN  state["duration_sec"] \in
                {seconds(info.duration) :
                    info \in {i \in EngineInfos(Segments) : i.kind = "duration"}}
                \cup {seconds(last)}

\* out is the list windows with a label added to each window and nothing
\* else changed
LabeledVersions(windows, out) ==
    /\ Len(out) = Len(windows)
    /\ \A i \in 1..Len(out) :
          /\ "label" \in DOMAIN out[i]
          /\ WithoutLabel(out[i]) = windows[i]

\* C16: every stage keeps each field that is already in the analysis record
\* at the value it has, except that the classify stage replaces windows with
\* their labeled versions, whose start, end and text fields are unchanged.
C16_StagesOnlyAddFields ==
    [][/\ \A k \in DOMAIN state :
             /\ k \in DOMAIN state'
             /\ ~(k = "windows" /\ pc = "classify") => state'[k] = state[k]
       /\ (pc = "classify" /\ pc' = "metrics") =>
             LabeledVersions(state["windows"], state'["windows"])]_vars

(***************************************************************************)
(* backend/server.py: the classroom and session endpoints over the         *)
(* classrooms and sessions tables.  A handler is one step, except          *)
(* create_class, whose read of the caller's classrooms and whose insert    *)
(* are two steps that other requests may come between.  A classroom row is *)
(* [user_id, name, avg_interactivity, sessions_count], a session row       *)
(* [classroom_id, audio_url, interactivity_score]; scores are in           *)
(* hundredths, and ids are never given twice.                              *)
(***************************************************************************)
MAX_CLASSES_PER_USER == 4

Users == {1, 2}                  \* ids of the authenticated callers
Names == {"n1", "n2"}            \* classroom names
NoName == "None"                 \* payload.name is None
STATIC == "/static/"
AudioUrls == { <<>>, <<STATIC, "a.mp3">>, <<"http://x/", "a.mp3">> }
NoScore == 0 - 1                 \* interactivity_score is None
\* what analyze_session meets after its checks: no file on disk, run_analysis
\* raising, or a result with this interactivity_score
Outcomes ==
    {[kind |-> "no_file", score |-> 0], [kind |-> "raises", score |-> 0]}
    \cup {[kind |-> "ok", score |-> sc] : sc \in {0, 5000}}

Pipeline == <<pc, state, raised, GEMINI_API_KEY, WINDOW_SEC, path_exists, calls, answers>>

InitServer ==
    /\ pc = "serving"
    /\ state = <<>>
    /\ raised = "none"
    /\ GEMINI_API_KEY = TRUE
    /\ WINDOW_SEC = 1
    /\ path_exists = TRUE
    /\ calls = NoCalls
    /\ answers = <<>>
    /\ classrooms = <<>>
    /\ sessions = <<>>
    /\ next_class_id = 1
    /\ next_session_id = 1
    /\ pending = [u \in Users |-> 0]
    /\ response = NoResponse

Reply(handler, user, target, status) ==
    response' = [handler |-> handler, user |-> user, target |-> target,
                 status |-> status]

\* select(Classroom).where(Classroom.user_id == u)
OwnedBy(u) == {c \in DOMAIN classrooms : classrooms[c].user_id = u}

\* not (not row or row.user_id != current.id), row = db.get(Classroom, c)
Found(u, c) == c \in DOMAIN classrooms /\ classrooms[c].user_id = u

\* select(SessionRow).where(SessionRow.classroom_id == c) over the table tbl
SessionsOf(tbl, c) == {s \in DOMAIN tbl : tbl[s].classroom_id = c}

RECURSIVE SumScores(_, _)
SumScores(tbl, ids) ==
    IF ids = {} THEN 0
    ELSE LET s == CHOOSE x \in ids : TRUE
         IN  tbl[s].interactivity_score + SumScores(tbl, ids \ {s})

\* round(sum(scores) / len(scores), 2) if scores else 0.0, over the analyzed
\* sessions of classroom c in the table tbl
Average(tbl, c) ==
    LET scored == {s \in SessionsOf(tbl, c) : tbl[s].interactivity_score # NoScore}
    IN  IF scored = {} THEN 0
        ELSE RoundHalfEven(SumScores(tbl, scored), Cardinality(scored))

Remove(tbl, ids) == [k \in DOMAIN tbl \ ids |-> tbl[k]]

\* create_class up to the cap check
CreateClassRead(u) ==
    /\ pc = "serving"
    /\ IF Cardinality(OwnedBy(u)) >= MAX_CLASSES_PER_USER
       THEN /\ Reply("create_class", u, 0, 400)
            /\ UNCHANGED pending
       ELSE /\ pending' = [pending EXCEPT ![u] = @ + 1]
            /\ UNCHANGED response
    /\ UNCHANGED <<classrooms, sessions, next_class_id, next_session_id, Pipeline>>

\* create_class from db.add(row) on; payload.name, which arrives with the
\* request, is drawn here, since no step before this one reads it
CreateClassInsert(u, name) ==
    /\ pc = "serving"
    /\ pending[u] > 0
    /\ pending' = [pending EXCEPT ![u] = @ - 1]
    /\ classrooms' = (next_class_id :> [user_id |-> u, name |-> name,
                                        avg_interactivity |-> 0,
                                        sessions_count |-> 0]) @@ classrooms
    /\ next_class_id' = next_class_id + 1
    /\ Reply("create_class", u, next_class_id, 200)
    /\ UNCHANGED <<sessions, next_session_id, Pipeline>>

GetClass(u, c) ==
    /\ pc = "serving"
    /\ Reply("get_class", u, c, IF Found(u, c) THEN 200 ELSE 404)
    /\ UNCHANGED <<classrooms, sessions, next_class_id, next_session_id, pending, Pipeline>>

UpdateClass(u, c, name) ==
    /\ pc = "serving"
    /\ IF ~Found(u, c)
       THEN /\ Reply("update_class", u, c, 404)
            /\ UNCHANGED classrooms
       ELSE /\ classrooms' = IF name # NoName
                             THEN [classrooms EXCEPT ![c].name = name]
                             ELSE classrooms
            /\ Reply("update_class", u, c, 200)
    /\ UNCHANGED <<sessions, next_class_id, next_session_id, pending, Pipeline>>

\* DeleteClass leaving the sessions of the classroom in place
DeleteClass_KeepsSessions(u, c) ==
    /\ pc = "serving"
    /\ IF ~Found(u, c)
       THEN /\ Reply("delete_class", u, c, 404)
            /\ UNCHANGED <<classrooms, sessions>>
       ELSE /\ sessions' = sessions
            /\ classrooms' = Remove(classrooms, {c})
            /\ Reply("delete_class", u, c, 200)
    /\ UNCHANGED <<next_class_id, next_session_id, pending, Pipeline>>

DeleteClass(u, c) ==
    /\ pc = "serving"
    /\ IF ~Found(u, c)
       THEN /\ Reply("delete_class", u, c, 404)
            /\ UNCHANGED <<classrooms, sessions>>
       ELSE /\ sessions' = Remove(sessions, SessionsOf(sessions, c))
            /\ classrooms' = Remove(classrooms, {c})
            /\ Reply("delete_class", u, c, 200)
    /\ UNCHANGED <<next_class_id, next_session_id, pending, Pipeline>>

ListSessions(u, c) ==
    /\ pc = "serving"
    /\ Reply("list_sessions", u, c, IF Found(u, c) THEN 200 ELSE 404)
    /\ UNCHANGED <<classrooms, sessions, next_class_id, next_session_id, pending, Pipeline>>

CreateSession(u, c, audio_url) ==
    /\ pc = "serving"
    /\ IF ~Found(u, c)
       THEN /\ Reply("create_session", u, c, 404)
            /\ UNCHANGED <<classrooms, sessions, next_session_id>>
       ELSE IF audio_url = <<>>
       THEN /\ Reply("create_session", u, c, 400)
            /\ UNCHANGED <<classrooms, sessions, next_session_id>>
       ELSE /\ sessions' = (next_session_id :> [classroom_id |-> c,
                                                audio_url |-> audio_url,
                                                interactivity_score |-> NoScore])
                           @@ sessions
            /\ next_session_id' = next_session_id + 1
            /\ classrooms' = [classrooms EXCEPT ![c].sessions_count = @ + 1]
            /\ Reply("create_session", u, c, 200)
    /\ UNCHANGED <<next_class_id, pending, Pipeline>>

\* DeleteSession without the check of the classroom's owner
DeleteSession_NoOwnerCheck(u, s) ==
    /\ pc = "serving"
    /\ IF s \notin DOMAIN sessions
       THEN /\ Reply("delete_session", u, s, 404)
            /\ UNCHANGED <<classrooms, sessions>>
       ELSE LET c == sessions[s].classroom_id
            IN  IF c \notin DOMAIN classrooms
                THEN /\ Reply("delete_session", u, s, 404)
                     /\ UNCHANGED <<classrooms, sessions>>
                ELSE LET remaining == Remove(sessions, {s})
                     IN  /\ sessions' = remaining
                         /\ classrooms' =
                               [classrooms EXCEPT
                                  ![c].sessions_count =
                                      Cardinality(SessionsOf(remaining, c)),
                                  ![c].avg_interactivity = Average(remaining, c)]
                         /\ Reply("delete_session", u, s, 200)
    /\ UNCHANGED <<next_class_id, next_session_id, pending, Pipeline>>

\* the delete and the recomputed counters are two commits of one handler
DeleteSession(u, s) ==
    /\ pc = "serving"
    /\ IF s \notin DOMAIN sessions
       THEN /\ Reply("delete_session", u, s, 404)
            /\ UNCHANGED <<classrooms, sessions>>
       ELSE LET c == sessions[s].classroom_id
            IN  IF ~Found(u, c)
                THEN /\ Reply("delete_session", u, s, 404)
                     /\ UNCHANGED <<classrooms, sessions>>
                ELSE LET remaining == Remove(sessions, {s})
                     IN  /\ sessions' = remaining
                         /\ classrooms' =
                               [classrooms EXCEPT
                                  ![c].sessions_count =
                                      Cardinality(SessionsOf(remaining, c)),
                                  ![c].avg_interactivity = Average(remaining, c)]
                         /\ Reply("delete_session", u, s, 200)
    /\ UNCHANGED <<next_class_id, next_session_id, pending, Pipeline>>

\* a request that fails leaves the tables as they were: nothing is committed
\* before the last statement of the handler
AnalyzeSession(u, s, outcome) ==
    /\ pc = "serving"
    /\ IF s \notin DOMAIN sessions
       THEN /\ Reply("analyze_session", u, s, 404)
            /\ UNCHANGED <<classrooms, sessions>>
       ELSE LET c   == sessions[s].classroom_id
                url == sessions[s].audio_url
            IN  IF ~Found(u, c)
                THEN /\ Reply("analyze_session", u, s, 404)
                     /\ UNCHANGED <<classrooms, sessions>>
                ELSE IF url = <<>> \/ url[1] # STATIC
                THEN /\ Reply("analyze_session", u, s, 400)
                     /\ UNCHANGED <<classrooms, sessions>>
                ELSE IF outcome.kind = "no_file"
                THEN /\ Reply("analyze_session", u, s, 404)
                     /\ UNCHANGED <<classrooms, sessions>>
                ELSE IF outcome.kind = "raises"
                THEN /\ Reply("analyze_session", u, s, 500)
                     /\ UNCHANGED <<classrooms, sessions>>
                ELSE LET analyzed == [sessions EXCEPT
                                        ![s].interactivity_score = outcome.score]
                     IN  /\ sessions' = analyzed
                         /\ classrooms' =
                               [classrooms EXCEPT
                                  ![c].avg_interactivity = Average(analyzed, c)]
                         /\ Reply("analyze_session", u, s, 200)
    /\ UNCHANGED <<next_class_id, next_session_id, pending, Pipeline>>

RECURSIVE SumPending(_)
SumPending(us) ==
    IF us = {} THEN 0
    ELSE LET u == CHOOSE x \in us : TRUE IN pending[u] + SumPending(us \ {u})

(***************************************************************************)
(* All endpoints, on at most MaxServerClasses classrooms and MaxSessions   *)
(* sessions.                                                               *)
(***************************************************************************)
MaxServerClasses == 2    \* classroom ids given out
MaxSessions == 2         \* session ids given out
MaxPending == 2          \* create_class handlers of a user between read and insert

ClassIds == 1..MaxServerClasses
SessionIds == 1..MaxSessions

NextServer ==
    \E u \in Users :
       \/ /\ next_class_id + SumPending(Users) <= MaxServerClasses
          /\ pending[u] < MaxPending
          /\ CreateClassRead(u)
       \/ \E name \in Names : CreateClassInsert(u, name)
       \/ \E c \in ClassIds : GetClass(u, c)
       \/ \E c \in ClassIds : \E name \in Names \cup {NoName} : UpdateClass(u, c, name)
       \/ \E c \in ClassIds : DeleteClass(u, c)
       \/ \E c \in ClassIds : ListSessions(u, c)
       \/ \E c \in ClassIds : \E url \in AudioUrls :
             next_session_id <= MaxSessions /\ CreateSession(u, c, url)
       \/ \E s \in SessionIds : DeleteSession(u, s)
       \/ \E s \in SessionIds : \E outcome \in Outcomes : AnalyzeSession(u, s, outcome)

SpecServer == InitServer /\ [][NextServer]_vars

(***************************************************************************)
(* create_class and delete_class requests only, on at most MaxClassIds     *)
(* classrooms.                                                             *)
(***************************************************************************)
MaxClassIds == 5         \* classroom ids given out

NextClasses ==
    \E u \in Users :
       \/ /\ next_class_id + SumPending(Users) <= MaxClassIds
          /\ pending[u] < MaxPending
          /\ CreateClassRead(u)
       \/ CreateClassInsert(u, "n1")
       \/ \E c \in 1..MaxClassIds : DeleteClass(u, c)

SpecClasses == InitServer /\ [][NextClasses]_vars

\* C18: each classroom's sessions_count is the number of session rows that
\* name it, and every session row names a classroom that exists.
C18_SessionsCountMatchesRows ==
    pc = "serving" =>
        /\ \A c \in DOMAIN classrooms :
              classrooms[c].sessions_count = Cardinality(SessionsOf(sessions, c))
        /\ \A s \in DOMAIN sessions : sessions[s].classroom_id \in DOMAIN classrooms

C18_Witness ==
    /\ pc = "serving"
    /\ response.handler = "delete_session"
    /\ response.status = 200
    /\ \E c \in DOMAIN classrooms :
          /\ classrooms[c].sessions_count = 1
          /\ \E s \in DOMAIN sessions :
                /\ sessions[s].classroom_id = c
                /\ sessions[s].interactivity_score # NoScore
    /\ next_class_id > Cardinality(DOMAIN classrooms) + 1

\* C19: no user owns more than MAX_CLASSES_PER_USER classrooms, whatever the
\* order in which the reads and inserts of concurrent create_class requests
\* and delete_class requests are taken.
C19_ClassCapHolds ==
    pc = "serving" =>
        \A u \in Users : Cardinality(OwnedBy(u)) <= MAX_CLASSES_PER_USER

\* classroom c exists and is not u's; session s is of such a classroom
ForeignClass(u, c) == c \in DOMAIN classrooms /\ classrooms[c].user_id # u
ForeignSession(u, s) ==
    s \in DOMAIN sessions /\ ForeignClass(u, sessions[s].classroom_id)

\* this step answered 404 and left both tables as they were
Denied ==
    /\ response'.status = 404
    /\ classrooms' = classrooms
    /\ sessions' = sessions

\* this step left every classroom that is not u's, and every session of
\* such a classroom, as it was
OthersUntouched(u) ==
    /\ \A c \in DOMAIN classrooms :
          classrooms[c].user_id # u =>
             c \in DOMAIN classrooms' /\ classrooms'[c] = classrooms[c]
    /\ \A c \in DOMAIN classrooms' :
          classrooms'[c].user_id # u => c \in DOMAIN classrooms
    /\ \A s \in DOMAIN sessions :
          ForeignSession(u, s) =>
             s \in DOMAIN sessions' /\ sessions'[s] = sessions[s]
    /\ \A s \in DOMAIN sessions' :
          (sessions'[s].classroom_id \in DOMAIN classrooms'
             /\ classrooms'[sessions'[s].classroom_id].user_id # u)
          => s \in DOMAIN sessions

\* C20: get_class, update_class, delete_class, list_sessions and
\* create_session on another user's classroom, and delete_session and
\* analyze_session on a session of another user's classroom, answer 404 and
\* change no classroom or session row; and every step changes only rows of
\* the caller who is answered.
C20_ForeignRequestsDenied ==
    [][/\ \A u \in Users :
             /\ \A c \in ClassIds :
                   ForeignClass(u, c) =>
                      ((\/ GetClass(u, c)
                        \/ \E name \in Names \cup {NoName} : UpdateClass(u, c, name)
                        \/ DeleteClass(u, c)
                        \/ ListSessions(u, c)
                        \/ \E url \in AudioUrls : CreateSession(u, c, url))
                       => Denied)
             /\ \A s \in SessionIds :
                   ForeignSession(u, s) =>
                      ((\/ DeleteSession(u, s)
                        \/ \E outcome \in Outcomes : AnalyzeSession(u, s, outcome))
                       => Denied)
       /\ OthersUntouched(response'.user)]_vars

C20_Witness ==
    /\ pc = "serving"
    /\ response.handler = "delete_session"
    /\ response.status = 404
    /\ ForeignSession(response.user, response.target)
    /\ sessions[response.target].interactivity_score # NoScore
    /\ classrooms[sessions[response.target].classroom_id].sessions_count = 1

====
